---- MODULE Spec2Model ----
(***************************************************************************)
(* A model of the GeolocationProject tile store (tile_db.py), its PIR      *)
(* adapter (ypir_adapter.py) and the benchmark harness (demo_geopir.py).   *)
(*                                                                         *)
(* Bytes are integers 0..255 and a bytes object is a sequence of them.     *)
(* Floating-point coordinates are modelled in fixed point (integers in     *)
(* units of one grid quantum); weather_c is held in tenths and risk in     *)
(* thousandths, which is what round(x, 1) and round(x, 3) keep.            *)
(* One file path is modelled: the path handed to every operation.          *)
(***************************************************************************)
EXTENDS Integers, Sequences, FiniteSets, TLC

VARIABLES
    exists,     \* os.path.exists(path)
    data,       \* the bytes of the file at path (<<>> when it does not exist)
    written,    \* what the creation of the file wrote: its sizes and each tile's raw payload
    geo,        \* the last tile_index call: its grid, its point and its result
    ret,        \* the outcome of the last completed operation
    pc,         \* the position of run_ypir ("idle" outside a run)
    run,        \* the local variables of the run_ypir call in progress
    now,        \* the clock time.perf_counter() reads
    trace       \* the calls of the run in progress (or of the last operation), in order

vars == <<exists, data, written, geo, ret, pc, run, now, trace>>

----------------------------------------------------------------------------
(* Bounds of the model *)

MaxNLat == 2          \* grids have n_lat in 0..MaxNLat
MaxNLon == 2          \* grids have n_lon in 0..MaxNLon
MaxSmallRecord == 2   \* small record sizes 0..MaxSmallRecord (every payload is truncated)
FitRecord == 128      \* a record size some payloads fit in and some do not
MaxCoord == 4         \* coordinates range over -MaxCoord..MaxCoord quanta
MaxStep == 2          \* lat_step, lon_step in 1..MaxStep quanta
MaxDt == 2            \* a call of the run takes 1..MaxDt ticks
MaxGap == 1           \* a perf_counter() call takes 0..MaxGap ticks
MaxRequired == 5      \* required_db_bytes in 0..MaxRequired

(* Program constants *)

Upload == 4

----------------------------------------------------------------------------
(* bytes helpers *)

Min(a, b) == IF a < b THEN a ELSE b

Zeros(n) == [k \in 1..n |-> 0]

\* b[:n] for n >= 0
Take(b, n) == SubSeq(b, 1, Min(Len(b), n))

\* f.seek(off); f.read(n): at most n bytes starting at offset off, fewer at end of file
ReadAt(b, off, n) == SubSeq(b, off + 1, Min(Len(b), off + n))

\* f.seek(off); f.read(): everything from offset off
ReadFrom(b, off) == SubSeq(b, off + 1, Len(b))

\* struct.pack("<I", n), for n in 0..2^32-1
PackU32(n) == << n % 256, (n \div 256) % 256, (n \div 65536) % 256, (n \div 16777216) % 256 >>

\* struct.unpack("<I", b)
UnpackU32(b) == b[1] + 256 * b[2] + 65536 * b[3] + 16777216 * b[4]

\* str(n) for n >= 0, as ASCII
RECURSIVE Dec(_)
Dec(n) == IF n < 10 THEN << 48 + n >> ELSE Dec(n \div 10) \o << 48 + (n % 10) >>

\* repr of round(x, 1), x held in tenths: sign, integer part, ".", one digit
Float1(w) ==
    LET a == IF w < 0 THEN -w ELSE w
    IN  (IF w < 0 THEN <<45>> ELSE <<>>) \o Dec(a \div 10) \o <<46>> \o Dec(a % 10)

\* repr of round(x, 3), x >= 0 held in thousandths: the shortest decimal, at
\* least one fractional digit
Float3(r) ==
    LET f == r % 1000
        d1 == 48 + (f \div 100)
        d2 == 48 + ((f \div 10) % 10)
        d3 == 48 + (f % 10)
        frac == IF f % 100 = 0 THEN << d1 >>
                ELSE IF f % 10 = 0 THEN << d1, d2 >>
                ELSE << d1, d2, d3 >>
    IN  Dec(r \div 1000) \o <<46>> \o frac

----------------------------------------------------------------------------
(* tile_db.py: GeoGrid *)

Grids ==
    [lat_min : {-1, 0}, lon_min : {0, 1}, lat_step : 1..MaxStep, lon_step : 1..MaxStep,
     n_lat : 0..MaxNLat, n_lon : 0..MaxNLon]

\* the grids stores are created over: at most one row of tiles
StoreGrids ==
    {g \in Grids : g.lat_min = 0 /\ g.lon_min = 0 /\ g.lat_step = 1 /\ g.lon_step = 1
                    /\ g.n_lat <= 1}

Coords == (0 - MaxCoord)..MaxCoord

PyMax(a, b) == IF a >= b THEN a ELSE b

PyMin(a, b) == IF a <= b THEN a ELSE b

\* int(math.floor(a / b)) for b > 0
FloorDiv(a, b) == a \div b

\* tile_index without the clamp at 0
tile_index_no_lower_clamp(g, lat, lon) ==
    LET i == PyMin(g.n_lat - 1, FloorDiv(lat - g.lat_min, g.lat_step))
        j == PyMin(g.n_lon - 1, FloorDiv(lon - g.lon_min, g.lon_step))
    IN  i * g.n_lon + j

tile_index(g, lat, lon) ==
    LET i0 == FloorDiv(lat - g.lat_min, g.lat_step)
        j0 == FloorDiv(lon - g.lon_min, g.lon_step)
        i == PyMax(0, PyMin(g.n_lat - 1, i0))
        j == PyMax(0, PyMin(g.n_lon - 1, j0))
    IN  i * g.n_lon + j

n_tiles(g) == g.n_lat * g.n_lon

----------------------------------------------------------------------------
(* tile_db.py: the store file *)

MAGIC == <<84, 73, 76, 69, 68, 66, 49>>   \* TILEDB1

KTile == <<123, 34, 116, 105, 108, 101, 34, 58>>   \* {"tile":
KWeather == <<44, 34, 119, 101, 97, 116, 104, 101, 114, 95, 99, 34, 58>>   \* ,"weather_c":
KAqi == <<44, 34, 97, 113, 105, 34, 58>>   \* ,"aqi":
KRisk == <<44, 34, 114, 105, 115, 107, 34, 58>>   \* ,"risk":
KPois == <<44, 34, 112, 111, 105, 115, 34, 58, 91>>   \* ,"pois":[
KEnd == <<93, 125>>   \* ]}
PName == <<123, 34, 110, 97, 109, 101, 34, 58, 34, 112, 111, 105, 95>>   \* {"name":"poi_
PType == <<34, 44, 34, 116, 121, 112, 101, 34, 58, 34>>   \* ","type":"
PEnd == <<34, 125>>   \* "}
Cafe == <<99, 97, 102, 101>>
Bus == <<98, 117, 115>>
Hospital == <<104, 111, 115, 112, 105, 116, 97, 108>>
School == <<115, 99, 104, 111, 111, 108>>

\* What one tile draws from rng: weather_c in tenths (uniform(-5, 35) rounded to
\* 0.1), aqi (int(uniform(0, 250))), risk in thousandths (random() rounded to
\* 0.001) and the types of its 1..5 pois (rng.choice per poi).
RngDraws ==
    { [weather_c |-> 4, aqi |-> 211, risk |-> 764, types |-> << Cafe >>],
      [weather_c |-> -37, aqi |-> 0, risk |-> 500, types |-> << Hospital, School, Bus >>] }

\* json.dumps of one poi of tile idx
DumpPoi(idx, k, type) == PName \o Dec(idx) \o <<95>> \o Dec(k) \o PType \o type \o PEnd

RECURSIVE DumpPois(_, _, _)
DumpPois(idx, k, types) ==
    IF k >= Len(types) THEN <<>>
    ELSE (IF k > 0 THEN <<44>> ELSE <<>>) \o DumpPoi(idx, k, types[k + 1])
         \o DumpPois(idx, k + 1, types)

\* raw = json.dumps(payload, separators=(",", ":")).encode("utf-8")
Dumps(idx, d) ==
    KTile \o Dec(idx) \o KWeather \o Float1(d.weather_c) \o KAqi \o Dec(d.aqi)
    \o KRisk \o Float3(d.risk) \o KPois \o DumpPois(idx, 0, d.types) \o KEnd

\* _pad_record that truncates but does not pad
_pad_record_no_padding(b, record_size) ==
    IF Len(b) > record_size THEN Take(b, record_size) ELSE b

_pad_record(b, record_size) ==
    IF Len(b) > record_size THEN Take(b, record_size)
    ELSE b \o Zeros(record_size - Len(b))

\* the loop of write_tile_db_bin: the records of tiles idx..n-1
RECURSIVE Records(_, _, _, _)
Records(idx, n, record_size, draws) ==
    IF idx >= n THEN <<>>
    ELSE _pad_record(Dumps(idx, draws[idx + 1]), record_size)
         \o Records(idx + 1, n, record_size, draws)

\* struct.pack("<II", ...) raises struct.error outside 0..2^32-1; the upper end is
\* beyond the integers TLC represents, so the sizes of the model meet only the lower
Packable(n) == n >= 0

\* write_tile_db_bin: the file is opened "wb" (created or truncated), the magic is
\* written, then the two sizes are packed; when packing raises, the with block
\* closes the file with the magic alone in it.
write_tile_db_bin(grid, record_size, draws) ==
    IF ~(Packable(record_size) /\ Packable(n_tiles(grid)))
    THEN [status |-> "struct.error", data |-> MAGIC, raws |-> <<>>]
    ELSE [status |-> "ok",
          data |-> MAGIC \o PackU32(record_size) \o PackU32(n_tiles(grid))
                   \o Records(0, n_tiles(grid), record_size, draws),
          raws |-> [k \in 1..n_tiles(grid) |-> Dumps(k - 1, draws[k])]]

NoHdr == [record_size |-> 0, n_tiles |-> 0, header_size |-> 0]

\* read_tile_db_bin_header reporting a header of 7 + 4 bytes
read_header_size_11(e, b) ==
    IF ~e THEN [status |-> "FileNotFoundError", hdr |-> NoHdr]
    ELSE IF Take(b, 7) # MAGIC THEN [status |-> "BadMagic", hdr |-> NoHdr]
    ELSE IF Len(ReadAt(b, 7, 8)) < 8 THEN [status |-> "struct.error", hdr |-> NoHdr]
    ELSE [status |-> "ok",
          hdr |-> [record_size |-> UnpackU32(ReadAt(b, 7, 4)),
                   n_tiles |-> UnpackU32(ReadAt(b, 11, 4)),
                   header_size |-> 7 + 4]]

\* read_tile_db_bin_header without the check of the magic
read_header_unchecked_magic(e, b) ==
    IF ~e THEN [status |-> "FileNotFoundError", hdr |-> NoHdr]
    ELSE IF Len(ReadAt(b, 7, 8)) < 8 THEN [status |-> "struct.error", hdr |-> NoHdr]
    ELSE [status |-> "ok",
          hdr |-> [record_size |-> UnpackU32(ReadAt(b, 7, 4)),
                   n_tiles |-> UnpackU32(ReadAt(b, 11, 4)),
                   header_size |-> 7 + 8]]

\* read_tile_db_bin_header on the file (e: it exists, b: its bytes): open raises
\* FileNotFoundError, a wrong magic ValueError("Bad magic header"), and a file
\* that ends inside the two sizes struct.error
read_tile_db_bin_header(e, b) ==
    IF ~e THEN [status |-> "FileNotFoundError", hdr |-> NoHdr]
    ELSE IF Take(b, 7) # MAGIC THEN [status |-> "BadMagic", hdr |-> NoHdr]
    ELSE IF Len(ReadAt(b, 7, 8)) < 8 THEN [status |-> "struct.error", hdr |-> NoHdr]
    ELSE [status |-> "ok",
          hdr |-> [record_size |-> UnpackU32(ReadAt(b, 7, 4)),
                   n_tiles |-> UnpackU32(ReadAt(b, 11, 4)),
                   header_size |-> 7 + 8]]

\* direct_fetch whose range check admits idx = n_tiles
direct_fetch_inclusive(e, b, idx) ==
    LET h == read_tile_db_bin_header(e, b)
    IN  IF h.status # "ok" THEN [status |-> h.status, bytes |-> <<>>]
        ELSE IF ~(0 <= idx /\ idx <= h.hdr.n_tiles)
             THEN [status |-> "IndexError", bytes |-> <<>>]
        ELSE [status |-> "ok",
              bytes |-> ReadAt(b, h.hdr.header_size + idx * h.hdr.record_size,
                               h.hdr.record_size)]

direct_fetch(e, b, idx) ==
    LET h == read_tile_db_bin_header(e, b)
    IN  IF h.status # "ok" THEN [status |-> h.status, bytes |-> <<>>]
        ELSE IF ~(0 <= idx /\ idx < h.hdr.n_tiles)
             THEN [status |-> "IndexError", bytes |-> <<>>]
        ELSE [status |-> "ok",
              bytes |-> ReadAt(b, h.hdr.header_size + idx * h.hdr.record_size,
                               h.hdr.record_size)]

----------------------------------------------------------------------------
(* demo_geopir.py: decoding a record *)

\* rec.rstrip(b"\x00")
RECURSIVE RStripNul(_)
RStripNul(b) ==
    IF b # <<>> /\ b[Len(b)] = 0 THEN RStripNul(SubSeq(b, 1, Len(b) - 1)) ELSE b

\* .decode("utf-8", errors="replace"): ASCII decodes to itself, a byte that is
\* not ASCII (no multi-byte sequence occurs in a record) to U+FFFD
Utf8Decode(b) == [k \in 1..Len(b) |-> IF b[k] < 128 THEN b[k] ELSE 65533]

IsDigit(c) == c >= 48 /\ c <= 57

\* the end (one past) of the run of digits of s starting at i; i when there is none
RECURSIVE DigitsEnd(_, _)
DigitsEnd(s, i) == IF i <= Len(s) /\ IsDigit(s[i]) THEN DigitsEnd(s, i + 1) ELSE i

\* The JSON scanner: each Scan operator takes the text and a position and returns
\* the position one past the value it read, or 0 when there is no such value there.
ScanNumber(s, i) ==
    LET a == IF i <= Len(s) /\ s[i] = 45 THEN i + 1 ELSE i
        b == DigitsEnd(s, a)
        c == IF b <= Len(s) /\ s[b] = 46 THEN DigitsEnd(s, b + 1) ELSE b
    IN  IF b = a THEN 0
        ELSE IF b <= Len(s) /\ s[b] = 46 /\ c = b + 1 THEN 0
        ELSE c

\* a string without escapes: from the quote at i to the next quote
RECURSIVE StringEnd(_, _)
StringEnd(s, j) ==
    IF j > Len(s) THEN 0
    ELSE IF s[j] = 34 THEN j + 1
    ELSE IF s[j] = 92 \/ s[j] < 32 THEN 0
    ELSE StringEnd(s, j + 1)

ScanString(s, i) == IF i <= Len(s) /\ s[i] = 34 THEN StringEnd(s, i + 1) ELSE 0

RECURSIVE ScanValue(_, _)
RECURSIVE ScanMembers(_, _)
RECURSIVE ScanElements(_, _)

ScanValue(s, i) ==
    IF i > Len(s) THEN 0
    ELSE IF s[i] = 123
         THEN (IF i + 1 <= Len(s) /\ s[i + 1] = 125 THEN i + 2 ELSE ScanMembers(s, i + 1))
    ELSE IF s[i] = 91
         THEN (IF i + 1 <= Len(s) /\ s[i + 1] = 93 THEN i + 2 ELSE ScanElements(s, i + 1))
    ELSE IF s[i] = 34 THEN ScanString(s, i)
    ELSE ScanNumber(s, i)

\* "key":value members up to the closing brace
ScanMembers(s, i) ==
    LET k == ScanString(s, i)
        v == IF k = 0 \/ k > Len(s) \/ s[k] # 58 THEN 0 ELSE ScanValue(s, k + 1)
    IN  IF v = 0 \/ v > Len(s) THEN 0
        ELSE IF s[v] = 44 THEN ScanMembers(s, v + 1)
        ELSE IF s[v] = 125 THEN v + 1
        ELSE 0

\* elements up to the closing bracket
ScanElements(s, i) ==
    LET v == ScanValue(s, i)
    IN  IF v = 0 \/ v > Len(s) THEN 0
        ELSE IF s[v] = 44 THEN ScanElements(s, v + 1)
        ELSE IF s[v] = 93 THEN v + 1
        ELSE 0

\* json.loads(txt) succeeds: txt is one JSON value and nothing else
JsonValid(s) == s # <<>> /\ ScanValue(s, 1) = Len(s) + 1

\* int of an ASCII integer literal without sign
RECURSIVE IntOf(_)
IntOf(s) == IF s = <<>> THEN 0 ELSE 10 * IntOf(SubSeq(s, 1, Len(s) - 1)) + (s[Len(s)] - 48)

TileKey == <<116, 105, 108, 101>>   \* tile

\* d.get(key) of the top-level object of a valid text, for an integer value: the
\* members from position i on are searched for the key; -1 stands for None
RECURSIVE GetInt(_, _, _)
GetInt(s, i, key) ==
    LET k == ScanString(s, i)
        v == IF k = 0 \/ k > Len(s) THEN 0 ELSE ScanValue(s, k + 1)
    IN  IF v = 0 \/ v > Len(s) THEN -1
        ELSE IF SubSeq(s, i + 1, k - 2) = key
             THEN (IF DigitsEnd(s, k + 1) = v THEN IntOf(SubSeq(s, k + 1, v - 1)) ELSE -1)
        ELSE IF s[v] = 44 THEN GetInt(s, v + 1, key)
        ELSE -1

\* parse_tile_record: the decoded JSON, or {"_raw": txt} when json.loads raises
parse_tile_record(rec) ==
    LET txt == Utf8Decode(RStripNul(rec))
    IN  IF JsonValid(txt)
        THEN [raw |-> FALSE, text |-> txt,
              tile |-> IF txt[1] = 123 THEN GetInt(txt, 2, TileKey) ELSE -1]
        ELSE [raw |-> TRUE, tile |-> -1, text |-> txt]

----------------------------------------------------------------------------
(* ypir_adapter.py *)

_read_records_region(e, b) ==
    LET h == read_tile_db_bin_header(e, b)
    IN  IF h.status # "ok" THEN [status |-> h.status, bytes |-> <<>>]
        ELSE [status |-> "ok", bytes |-> ReadFrom(b, h.hdr.header_size)]

\* records * reps
RECURSIVE Repeat(_, _)
Repeat(b, reps) == IF reps <= 0 THEN <<>> ELSE b \o Repeat(b, reps - 1)

\* _build_ypir_db_bytes whose repetition count is rounded down
_build_ypir_db_bytes_floor_reps(e, b, required) ==
    LET r == _read_records_region(e, b)
        records == r.bytes
        reps == required \div Len(records)
    IN  IF r.status # "ok" THEN r
        ELSE IF Len(records) = 0 THEN [status |-> "EmptyRegion", bytes |-> <<>>]
        ELSE IF Len(records) >= required THEN [status |-> "ok", bytes |-> Take(records, required)]
        ELSE [status |-> "ok", bytes |-> Take(Repeat(records, reps), required)]

\* _build_ypir_db_bytes that hands an empty region on instead of refusing it
_build_ypir_db_bytes_accepts_empty(e, b, required) ==
    LET r == _read_records_region(e, b)
        records == r.bytes
        reps == (required + Len(records) - 1) \div Len(records)
    IN  IF r.status # "ok" THEN r
        ELSE IF Len(records) = 0 \/ Len(records) >= required
             THEN [status |-> "ok", bytes |-> Take(records, required)]
        ELSE [status |-> "ok", bytes |-> Take(Repeat(records, reps), required)]

\* _build_ypir_db_bytes, for required >= 0
_build_ypir_db_bytes(e, b, required) ==
    LET r == _read_records_region(e, b)
        records == r.bytes
        reps == (required + Len(records) - 1) \div Len(records)
    IN  IF r.status # "ok" THEN r
        ELSE IF Len(records) = 0 THEN [status |-> "EmptyRegion", bytes |-> <<>>]
        ELSE IF Len(records) >= required THEN [status |-> "ok", bytes |-> Take(records, required)]
        ELSE [status |-> "ok", bytes |-> Take(Repeat(records, reps), required)]

\* The engine ypir_rs is an external library.  params_for may return any
\* parameters: the model draws their query dimension and required database length
\* from small ranges.  Its messages are opaque: a query carries its row, an answer
\* the byte of the database the row selects, and extract returns that byte.
MaxDim == 1

EngineParams == [dim_log2 : 0..MaxDim, required : 0..MaxRequired]

ypir_rs_query(client, dim_log2, row) == << row % 256, dim_log2 >>

ypir_rs_answer(server, query_bytes) ==
    IF server = <<>> THEN << 0 >> \o query_bytes
    ELSE << server[(query_bytes[1] % Len(server)) + 1] >> \o query_bytes

ypir_rs_extract(client, response_bytes) == Take(response_bytes, 1) \o Zeros(7)

NoCtx ==
    [built |-> FALSE, client |-> FALSE, server |-> <<>>, dim_log2 |-> 0,
     required_db_bytes |-> 0, n_items |-> 0, item_size_bytes |-> 0]

\* ypir_setup, params being what params_for returns; calls lists the engine calls
\* made, in order
ypir_setup(e, b, n_items, item_size_bytes, params) ==
    LET derive == << "params_for", "params_db_dim_1", "required_db_bytes" >>
        db == _build_ypir_db_bytes(e, b, params.required)
    IN  IF db.status # "ok" THEN [status |-> db.status, ctx |-> NoCtx, calls |-> derive]
        ELSE [status |-> "ok",
              calls |-> derive \o << "client_new", "server_new" >>,
              ctx |-> [built |-> TRUE, client |-> TRUE, server |-> db.bytes,
                       dim_log2 |-> params.dim_log2,
                       required_db_bytes |-> params.required,
                       n_items |-> n_items, item_size_bytes |-> item_size_bytes]]

\* 1 << n
RECURSIVE Pow2(_)
Pow2(n) == IF n <= 0 THEN 1 ELSE 2 * Pow2(n - 1)

ypir_make_query(ctx, idx) ==
    LET row == idx % Pow2(ctx.dim_log2)
    IN  ypir_rs_query(ctx.client, ctx.dim_log2, row)

ypir_answer(ctx, query_bytes) == ypir_rs_answer(ctx.server, query_bytes)

ypir_extract(ctx, response_bytes) == ypir_rs_extract(ctx.client, response_bytes)

----------------------------------------------------------------------------
(* demo_geopir.py: the harness *)

_ms(dt) == 1000 * dt

NoResult ==
    [label |-> "none", n_tiles |-> 0, record_size |-> 0, idx |-> 0, upload_bytes |-> 0,
     download_bytes |-> 0, t_client_ms |-> 0, t_server_ms |-> 0, t_total_ms |-> 0]

\* run_baseline counting the download after the padding is stripped
run_baseline_counts_stripped(e, b, idx, dFetch, dStrip) ==
    LET h == read_tile_db_bin_header(e, b)
        f == direct_fetch(e, b, idx)
    IN  IF h.status # "ok" THEN [status |-> h.status, res |-> NoResult, rec |-> <<>>]
        ELSE IF f.status # "ok" THEN [status |-> f.status, res |-> NoResult, rec |-> <<>>]
        ELSE [status |-> "ok", rec |-> f.bytes,
              res |-> [label |-> "baseline_direct", n_tiles |-> h.hdr.n_tiles,
                       record_size |-> h.hdr.record_size, idx |-> idx,
                       upload_bytes |-> Upload,
                       download_bytes |-> Len(RStripNul(f.bytes)),
                       t_client_ms |-> _ms(dStrip),
                       t_server_ms |-> _ms(dFetch),
                       t_total_ms |-> _ms(dFetch + dStrip)]]

\* run_baseline: t0 and s0 are read at clock 0, the fetch takes dFetch ticks and
\* the stripping of the padding dStrip
run_baseline(e, b, idx, dFetch, dStrip) ==
    LET h == read_tile_db_bin_header(e, b)
        upload == Upload
        t0 == 0
        s0 == 0
        f == direct_fetch(e, b, idx)
        s1 == s0 + dFetch
        t1 == s1 + dStrip
    IN  IF h.status # "ok" THEN [status |-> h.status, res |-> NoResult, rec |-> <<>>]
        ELSE IF f.status # "ok" THEN [status |-> f.status, res |-> NoResult, rec |-> <<>>]
        ELSE [status |-> "ok", rec |-> f.bytes,
              res |-> [label |-> "baseline_direct", n_tiles |-> h.hdr.n_tiles,
                       record_size |-> h.hdr.record_size, idx |-> idx,
                       upload_bytes |-> upload, download_bytes |-> Len(f.bytes),
                       t_client_ms |-> _ms((t1 - t0) - (s1 - s0)),
                       t_server_ms |-> _ms(s1 - s0),
                       t_total_ms |-> _ms(t1 - t0)]]

----------------------------------------------------------------------------
(* The state machine *)

NoGeo ==
    [called |-> FALSE, lat |-> 0, lon |-> 0, out |-> 0,
     grid |-> [lat_min |-> 0, lon_min |-> 0, lat_step |-> 1, lon_step |-> 1,
               n_lat |-> 0, n_lon |-> 0]]

\* the outcome of an operation: the fields an operation does not set keep these values
NoRet ==
    [op |-> "none", status |-> "none", idx |-> 0, record_size |-> 0, n_tiles |-> 0,
     required |-> 0, bytes |-> <<>>, hdr |-> NoHdr, res |-> NoResult, ctx |-> NoCtx,
     calls |-> <<>>]

NoRun ==
    [idx |-> 0, gap |-> 0, hdr |-> NoHdr, ctx |-> NoCtx, calls |-> <<>>,
     t0 |-> 0, c0 |-> 0, c1 |-> 0, s0 |-> 0, s1 |-> 0, c2 |-> 0, c3 |-> 0, t1 |-> 0,
     query_bytes |-> <<>>, resp_bytes |-> <<>>, rec |-> <<>>]

\* files that are no tile store: their first 7 bytes are not the magic
BadMagic == <<84, 73, 76, 69, 68, 66, 50>>   \* TILEDB2

ForeignFiles ==
    { <<>>, Take(MAGIC, 6), BadMagic \o PackU32(1) \o PackU32(1) \o <<123>>,
      <<0>> \o MAGIC \o PackU32(1) \o PackU32(1) \o <<123>> }

\* the record sizes stores are created with; -1 is one struct.pack refuses
RecordSizes == {-1} \cup (0..MaxSmallRecord) \cup {FitRecord}

\* the indices asked for: one below and two above the tiles of the largest store
Idxs == -1..(MaxNLon + 1)

Ticks == 1..MaxDt

Event(call, start, end) == [call |-> call, start |-> start, end |-> end]

Idle == pc = "idle"

\* no creation has completed
NotCreated == [created |-> FALSE, record_size |-> 0, n_tiles |-> 0, raws |-> <<>>]

\* Nothing exists at the path, or a foreign file does.
Init ==
    /\ exists \in BOOLEAN
    /\ data \in (IF exists THEN ForeignFiles ELSE {<<>>})
    /\ written = NotCreated
    /\ geo = NoGeo
    /\ ret = NoRet
    /\ pc = "idle"
    /\ run = NoRun
    /\ now = 0
    /\ trace = <<>>

\* ensure_db without the check that the path exists
ensure_db_always_writes(e, b, w, grid, record_size, draws) ==
    LET c == write_tile_db_bin(grid, record_size, draws)
    IN  [status |-> c.status, exists |-> TRUE, data |-> c.data,
         written |-> [created |-> c.status = "ok", record_size |-> record_size,
                      n_tiles |-> n_tiles(grid), raws |-> c.raws]]

\* ensure_db(path, record_size, grid), draws being what rng yields for each tile
ensure_db(e, b, w, grid, record_size, draws) ==
    IF e THEN [status |-> "skipped", exists |-> e, data |-> b, written |-> w]
    ELSE LET c == write_tile_db_bin(grid, record_size, draws)
         IN  [status |-> c.status, exists |-> TRUE, data |-> c.data,
              written |-> [created |-> c.status = "ok", record_size |-> record_size,
                           n_tiles |-> n_tiles(grid), raws |-> c.raws]]

EnsureDb ==
    /\ Idle
    /\ \E grid \in StoreGrids, record_size \in RecordSizes :
       \E draws \in [1..n_tiles(grid) -> RngDraws] :
          LET r == ensure_db(exists, data, written, grid, record_size, draws)
          IN  /\ exists' = r.exists
              /\ data' = r.data
              /\ written' = r.written
              /\ ret' = [NoRet EXCEPT !.op = "ensure_db", !.status = r.status,
                                      !.record_size = record_size,
                                      !.n_tiles = n_tiles(grid)]
    /\ trace' = <<>>
    /\ UNCHANGED <<geo, pc, run, now>>

ReadTileDbBinHeader ==
    /\ Idle
    /\ LET h == read_tile_db_bin_header(exists, data)
       IN  ret' = [NoRet EXCEPT !.op = "read_tile_db_bin_header", !.status = h.status,
                                !.hdr = h.hdr]
    /\ trace' = <<>>
    /\ UNCHANGED <<exists, data, written, geo, pc, run, now>>

DirectFetch ==
    /\ Idle
    /\ \E idx \in Idxs :
          LET f == direct_fetch(exists, data, idx)
          IN  ret' = [NoRet EXCEPT !.op = "direct_fetch", !.status = f.status,
                                   !.idx = idx, !.bytes = f.bytes]
    /\ trace' = <<>>
    /\ UNCHANGED <<exists, data, written, geo, pc, run, now>>

RunBaseline ==
    /\ Idle
    /\ \E idx \in Idxs, dFetch \in Ticks, dStrip \in Ticks :
          LET r == run_baseline(exists, data, idx, dFetch, dStrip)
          IN  ret' = [NoRet EXCEPT !.op = "run_baseline", !.status = r.status,
                                   !.idx = idx, !.bytes = r.rec, !.res = r.res]
    /\ trace' = <<>>
    /\ UNCHANGED <<exists, data, written, geo, pc, run, now>>

Next == EnsureDb \/ ReadTileDbBinHeader \/ DirectFetch \/ RunBaseline

Spec == Init /\ [][Next]_vars

----------------------------------------------------------------------------
(* GeoGrid.tile_index, applied once to each grid and point of the bounds *)

InitGrid ==
    /\ exists = FALSE
    /\ data = <<>>
    /\ written = NotCreated
    /\ geo \in [called : {FALSE}, grid : Grids, lat : Coords, lon : Coords, out : {0}]
    /\ ret = NoRet
    /\ pc = "idle"
    /\ run = NoRun
    /\ now = 0
    /\ trace = <<>>

TileIndex ==
    /\ ~geo.called
    /\ geo' = [geo EXCEPT !.called = TRUE,
                          !.out = tile_index(geo.grid, geo.lat, geo.lon)]
    /\ UNCHANGED <<exists, data, written, ret, pc, run, now, trace>>

NextGrid == TileIndex

SpecGrid == InitGrid /\ [][NextGrid]_vars

----------------------------------------------------------------------------
(* The benchmark over the file found at the path: the adapter and run_ypir *)

\* the stores ensure_db leaves for the small record sizes (every payload is cut to
\* its first bytes, so what rng drew does not show)
SmallStores ==
    { ensure_db(FALSE, <<>>, NotCreated, g, r,
                [k \in 1..n_tiles(g) |-> CHOOSE d \in RngDraws : d.aqi = 0])
        : g \in StoreGrids, r \in {-1} \cup (0..MaxSmallRecord) }

InitPir ==
    /\ exists \in BOOLEAN
    /\ \E c \in SmallStores
                \cup { [status |-> "none", exists |-> TRUE, data |-> f,
                        written |-> NotCreated] : f \in ForeignFiles } :
          /\ data = (IF exists THEN c.data ELSE <<>>)
          /\ written = (IF exists THEN c.written ELSE NotCreated)
    /\ geo = NoGeo
    /\ ret = NoRet
    /\ pc = "idle"
    /\ run = NoRun
    /\ now = 0
    /\ trace = <<>>

ReadRecordsRegion ==
    /\ Idle
    /\ LET r == _read_records_region(exists, data)
       IN  ret' = [NoRet EXCEPT !.op = "_read_records_region", !.status = r.status,
                                !.bytes = r.bytes]
    /\ trace' = <<>>
    /\ UNCHANGED <<exists, data, written, geo, pc, run, now>>

BuildYpirDbBytes ==
    /\ Idle
    /\ \E required \in 0..MaxRequired :
          LET r == _build_ypir_db_bytes(exists, data, required)
          IN  ret' = [NoRet EXCEPT !.op = "_build_ypir_db_bytes", !.status = r.status,
                                   !.required = required, !.bytes = r.bytes]
    /\ trace' = <<>>
    /\ UNCHANGED <<exists, data, written, geo, pc, run, now>>

\* the shapes (n_items, item_size_bytes) ypir_setup is called with
ClaimedShapes ==
    { [n_items |-> 0, item_size_bytes |-> 0],
      [n_items |-> MaxNLon, item_size_bytes |-> MaxSmallRecord] }

YpirSetup ==
    /\ Idle
    /\ \E shape \in ClaimedShapes, params \in EngineParams :
          LET s == ypir_setup(exists, data, shape.n_items, shape.item_size_bytes, params)
          IN  ret' = [NoRet EXCEPT !.op = "ypir_setup", !.status = s.status,
                                   !.required = params.required, !.ctx = s.ctx,
                                   !.calls = s.calls]
    /\ trace' = <<>>
    /\ UNCHANGED <<exists, data, written, geo, pc, run, now>>

\* run_ypir is the last operation of main (line 158): the run ends at "done", by
\* its return or by the error that leaves it.  Between two statements of the run
\* run.gap ticks pass; the header read takes one tick.
\* Line 89: the header is read; an error ends the call.
RunYpirHeader ==
    /\ Idle
    /\ \E idx \in {0, MaxNLon}, gap \in 0..MaxGap :
          LET h == read_tile_db_bin_header(exists, data)
              ev == << Event("read_tile_db_bin_header", 0, 1) >>
          IN  IF h.status # "ok"
              THEN /\ ret' = [NoRet EXCEPT !.op = "run_ypir", !.status = h.status,
                                           !.idx = idx]
                   /\ pc' = "done"
                   /\ trace' = ev
                   /\ UNCHANGED <<run, now>>
              ELSE /\ run' = [NoRun EXCEPT !.idx = idx, !.gap = gap, !.hdr = h.hdr]
                   /\ pc' = "setup"
                   /\ now' = 1
                   /\ trace' = ev
                   /\ ret' = NoRet
    /\ UNCHANGED <<exists, data, written, geo>>

\* line 92: ctx = ypir_setup(db_path, n_tiles, record_size); an error ends the call
RunYpirSetup ==
    /\ pc = "setup"
    /\ \E params \in EngineParams, dt \in Ticks :
          LET s == ypir_setup(exists, data, run.hdr.n_tiles, run.hdr.record_size, params)
              ev == trace \o << Event("ypir_setup", now + run.gap, now + run.gap + dt) >>
          IN  IF s.status # "ok"
              THEN /\ ret' = [NoRet EXCEPT !.op = "run_ypir", !.status = s.status,
                                           !.idx = run.idx, !.calls = s.calls]
                   /\ pc' = "done"
                   /\ trace' = ev
                   /\ UNCHANGED <<run, now>>
              ELSE /\ run' = [run EXCEPT !.ctx = s.ctx, !.calls = s.calls]
                   /\ pc' = "query"
                   /\ now' = now + run.gap + dt
                   /\ trace' = ev
                   /\ UNCHANGED ret
    /\ UNCHANGED <<exists, data, written, geo>>

\* lines 94-99: t0 and c0 are read, the query is made, c1 is read
RunYpirQuery ==
    /\ pc = "query"
    /\ \E dt \in Ticks :
          LET t0 == now + run.gap
              c0 == t0 + run.gap
              c1 == c0 + dt
          IN  /\ run' = [run EXCEPT !.t0 = t0, !.c0 = c0, !.c1 = c1,
                                    !.query_bytes = ypir_make_query(run.ctx, run.idx),
                                    !.calls = @ \o << "query" >>]
              /\ trace' = trace \o << Event("ypir_make_query", c0, c1) >>
              /\ now' = c1
    /\ pc' = "answer"
    /\ UNCHANGED <<exists, data, written, geo, ret>>

\* lines 102-104: s0 is read, the server answers, s1 is read
RunYpirAnswer ==
    /\ pc = "answer"
    /\ \E dt \in Ticks :
          LET s0 == now + run.gap
              s1 == s0 + dt
          IN  /\ run' = [run EXCEPT !.s0 = s0, !.s1 = s1,
                                    !.resp_bytes = ypir_answer(run.ctx, run.query_bytes),
                                    !.calls = @ \o << "answer" >>]
              /\ trace' = trace \o << Event("ypir_answer", s0, s1) >>
              /\ now' = s1
    /\ pc' = "extract"
    /\ UNCHANGED <<exists, data, written, geo, ret>>

\* lines 107-112: c2 is read, the response is extracted and cut to record_size,
\* c3 and t1 are read
RunYpirExtract ==
    /\ pc = "extract"
    /\ \E dt \in Ticks :
          LET c2 == now + run.gap
              c3 == c2 + dt
              t1 == c3 + run.gap
              raw == ypir_extract(run.ctx, run.resp_bytes)
          IN  /\ run' = [run EXCEPT !.c2 = c2, !.c3 = c3, !.t1 = t1,
                                    !.rec = Take(raw, run.hdr.record_size),
                                    !.calls = @ \o << "extract" >>]
              /\ trace' = trace \o << Event("ypir_extract", c2, c3) >>
              /\ now' = t1
    /\ pc' = "return"
    /\ UNCHANGED <<exists, data, written, geo, ret>>

\* the Result with the client time taken as in run_baseline: total minus server
run_ypir_result_client_as_rest(r) ==
    [label |-> "ypir", n_tiles |-> r.hdr.n_tiles, record_size |-> r.hdr.record_size,
     idx |-> r.idx, upload_bytes |-> Len(r.query_bytes),
     download_bytes |-> Len(r.resp_bytes),
     t_client_ms |-> _ms((r.t1 - r.t0) - (r.s1 - r.s0)),
     t_server_ms |-> _ms(r.s1 - r.s0),
     t_total_ms |-> _ms(r.t1 - r.t0)]

\* lines 114-125: the Result is built and returned with the record
run_ypir_result(r) ==
    [label |-> "ypir", n_tiles |-> r.hdr.n_tiles, record_size |-> r.hdr.record_size,
     idx |-> r.idx, upload_bytes |-> Len(r.query_bytes),
     download_bytes |-> Len(r.resp_bytes),
     t_client_ms |-> _ms((r.c1 - r.c0) + (r.c3 - r.c2)),
     t_server_ms |-> _ms(r.s1 - r.s0),
     t_total_ms |-> _ms(r.t1 - r.t0)]

RunYpirReturn ==
    /\ pc = "return"
    /\ ret' = [NoRet EXCEPT !.op = "run_ypir", !.status = "ok", !.idx = run.idx,
                            !.bytes = run.rec, !.res = run_ypir_result(run),
                            !.calls = run.calls]
    /\ pc' = "done"
    /\ UNCHANGED <<exists, data, written, geo, run, now, trace>>

NextPir ==
    \/ ReadTileDbBinHeader
    \/ DirectFetch
    \/ RunBaseline
    \/ ReadRecordsRegion
    \/ BuildYpirDbBytes
    \/ YpirSetup
    \/ RunYpirHeader
    \/ RunYpirSetup
    \/ RunYpirQuery
    \/ RunYpirAnswer
    \/ RunYpirExtract
    \/ RunYpirReturn

SpecPir == InitPir /\ [][NextPir]_vars

----------------------------------------------------------------------------
(* The claims *)

\* floor(x / s) for s > 0, by its defining inequality
FloorOf(x, s) == CHOOSE q \in (0 - 2 * MaxCoord - 2)..(2 * MaxCoord + 2) : q * s <= x /\ x < (q + 1) * s

Clamp(x, lo, hi) == IF x < lo THEN lo ELSE IF x > hi THEN hi ELSE x

\* C1: for every grid with n_lat >= 1, n_lon >= 1 and positive steps, and every
\* point inside or outside the box, tile_index returns i * n_lon + j with
\* i = clamp(floor((lat - lat_min) / lat_step), 0, n_lat - 1) and
\* j = clamp(floor((lon - lon_min) / lon_step), 0, n_lon - 1), a value in [0, n_tiles).
C1_TileIndexClamped ==
    (geo.called /\ geo.grid.n_lat >= 1 /\ geo.grid.n_lon >= 1) =>
        LET g == geo.grid
            i == Clamp(FloorOf(geo.lat - g.lat_min, g.lat_step), 0, g.n_lat - 1)
            j == Clamp(FloorOf(geo.lon - g.lon_min, g.lon_step), 0, g.n_lon - 1)
        IN  /\ geo.out = i * g.n_lon + j
            /\ 0 <= geo.out
            /\ geo.out < g.n_lat * g.n_lon

\* a point above the box in latitude and below it in longitude lands on the first
\* tile of the last row
C1_Witness ==
    /\ geo.called
    /\ geo.grid.n_lat >= 2
    /\ geo.grid.n_lon >= 2
    /\ geo.lat >= geo.grid.lat_min + geo.grid.n_lat * geo.grid.lat_step
    /\ geo.lon < geo.grid.lon_min
    /\ geo.out = (geo.grid.n_lat - 1) * geo.grid.n_lon

\* the last operation was a direct_fetch that returned the record of a tile of the
\* store the creation wrote
FetchedOfCreated ==
    /\ written.created
    /\ ret.op = "direct_fetch"
    /\ ret.status = "ok"

\* the record returned is record_size bytes and decodes to the payload of its tile
FetchedDecodes ==
    LET d == parse_tile_record(ret.bytes)
    IN  /\ Len(ret.bytes) = written.record_size
        /\ RStripNul(ret.bytes) = written.raws[ret.idx + 1]
        /\ ~d.raw
        /\ d.tile = ret.idx

\* C2 as stated: after creation with record size R over N tiles, direct_fetch of
\* any i in [0, N) returns R bytes that, stripped of trailing zeros, parse as the
\* payload written for tile i, whatever the length of that payload relative to R.
C2_FetchDecodesAnyLength == FetchedOfCreated => FetchedDecodes

\* C2 amended: the same, for the tiles whose serialized payload is at most R bytes.
C2_FetchDecodesWhenFits ==
    (FetchedOfCreated /\ Len(written.raws[ret.idx + 1]) <= written.record_size)
        => FetchedDecodes

\* the record of tile 1 was fetched from a store in which it fits with padding
C2_Witness ==
    /\ FetchedOfCreated
    /\ ret.idx = 1
    /\ Len(written.raws[2]) < written.record_size
    /\ Len(ret.bytes) = FitRecord
    /\ ret.bytes[Len(ret.bytes)] = 0

\* the bytes of record i of the file, given the length of its header
RecordOf(i, header_len) ==
    SubSeq(data, header_len + i * written.record_size + 1,
           header_len + (i + 1) * written.record_size)

\* the file is the magic, the two sizes and the N records of R bytes, header_len
\* bytes of header in all, and read_tile_db_bin_header reports that length
LayoutWithHeader(header_len) ==
    LET h == read_tile_db_bin_header(exists, data)
    IN  /\ exists
        /\ Len(data) = header_len + written.n_tiles * written.record_size
        /\ SubSeq(data, 1, 7) = MAGIC
        /\ h.status = "ok"
        /\ h.hdr.record_size = written.record_size
        /\ h.hdr.n_tiles = written.n_tiles
        /\ h.hdr.header_size = header_len
        /\ \A i \in 0..(written.n_tiles - 1) :
              /\ Len(RecordOf(i, header_len)) = written.record_size
              /\ RecordOf(i, header_len)
                   = Take(written.raws[i + 1] \o Zeros(written.record_size), written.record_size)

\* C3 as stated: a created store file is an 11-byte header followed by exactly N
\* records of R bytes, its length is 11 + N*R, and header_size is that length.
C3_Header11 == written.created => LayoutWithHeader(11)

\* C3 amended: the header is 15 bytes (7 of magic, 4 + 4 of sizes), the length is
\* 15 + N*R, and header_size is 15.
C3_Header15 == written.created => LayoutWithHeader(15)

C3_Witness ==
    /\ written.created
    /\ written.n_tiles = 2
    /\ written.record_size = FitRecord
    /\ Len(data) = 15 + 2 * FitRecord

\* C4: on a created store of n_tiles records, direct_fetch of any i < 0 or
\* i >= n_tiles fails as out of range, returns no bytes and leaves the file as it was.
C4_FetchOutOfRange ==
    [][ (written.created /\ ret'.op = "direct_fetch"
            /\ (ret'.idx < 0 \/ ret'.idx >= written.n_tiles))
        => (/\ ret'.status = "IndexError"
            /\ ret'.bytes = <<>>
            /\ exists' = exists
            /\ data' = data) ]_vars

\* the index just past the last record was refused
C4_Witness ==
    /\ written.created
    /\ written.n_tiles >= 1
    /\ ret.op = "direct_fetch"
    /\ ret.idx = written.n_tiles
    /\ ret.status = "IndexError"

\* C5: once a file exists at the path, every further ensure_db call, whatever its
\* grid and record size, is skipped and leaves the file byte for byte as it was.
C5_CreateIdempotent ==
    [][ (exists /\ ret'.op = "ensure_db")
        => (ret'.status = "skipped" /\ exists' /\ data' = data /\ written' = written) ]_vars

\* a call with another record size than the store's was skipped
C5_Witness ==
    /\ written.created
    /\ ret.op = "ensure_db"
    /\ ret.status = "skipped"
    /\ ret.record_size # written.record_size
    /\ ret.n_tiles # written.n_tiles

\* the records region of the file: what follows its 15-byte header
Region == SubSeq(data, 16, Len(data))

HeaderOk == read_tile_db_bin_header(exists, data).status = "ok"

\* C6: for a non-empty region of length L and every Q >= 0, _build_ypir_db_bytes
\* returns exactly Q bytes, the byte at k being region[k mod L].
C6_ReshapeTiles ==
    (ret.op = "_build_ypir_db_bytes" /\ HeaderOk /\ Len(Region) > 0) =>
        /\ ret.status = "ok"
        /\ Len(ret.bytes) = ret.required
        /\ \A k \in 0..(ret.required - 1) : ret.bytes[k + 1] = Region[(k % Len(Region)) + 1]

\* a region of two different bytes was tiled to a length that is no multiple of it
C6_Witness ==
    /\ ret.op = "_build_ypir_db_bytes"
    /\ HeaderOk
    /\ Len(Region) = 2
    /\ Region[1] # Region[2]
    /\ ret.required = 5
    /\ ret.bytes = Region \o Region \o << Region[1] >>

\* C7: every Result of run_baseline has upload_bytes 4 and download_bytes equal to
\* the record_size of the store header.
C7_BaselineBytes ==
    (ret.op = "run_baseline" /\ ret.status = "ok") =>
        /\ ret.res.upload_bytes = 4
        /\ ret.res.download_bytes = read_tile_db_bin_header(exists, data).hdr.record_size
        /\ ret.res.download_bytes = ret.res.record_size

\* a baseline fetch of a record that carries padding
C7_Witness ==
    /\ ret.op = "run_baseline"
    /\ ret.status = "ok"
    /\ ret.res.download_bytes = FitRecord
    /\ Len(RStripNul(ret.bytes)) < FitRecord

\* C8: ypir_setup on a store whose region is empty fails with the empty-database
\* error before client_new and server_new are called, and returns no context.
C8_SetupEmptyRegion ==
    (ret.op = "ypir_setup" /\ HeaderOk /\ Len(Region) = 0) =>
        /\ ret.status = "EmptyRegion"
        /\ ~ret.ctx.built
        /\ \A k \in 1..Len(ret.calls) : ret.calls[k] \notin {"client_new", "server_new"}

\* setup was refused on a store of two records of size 0
C8_Witness ==
    /\ ret.op = "ypir_setup"
    /\ written.created
    /\ written.n_tiles = 2
    /\ Len(data) = 15
    /\ ret.status = "EmptyRegion"
    /\ ret.required > 0

ReadingOps ==
    {"read_tile_db_bin_header", "direct_fetch", "_read_records_region",
     "_build_ypir_db_bytes", "ypir_setup", "run_baseline", "run_ypir"}

\* C9: on a file whose first 7 bytes are not the magic, every operation that reads
\* the store fails with the bad-format error of the header read, returns no bytes,
\* no context and no Result, and run_ypir stops at its header read.
C9_BadMagicPropagates ==
    (exists /\ Take(data, 7) # MAGIC /\ ret.op \in ReadingOps) =>
        /\ ret.status = "BadMagic"
        /\ ret.bytes = <<>>
        /\ ret.res = NoResult
        /\ ~ret.ctx.built
        /\ ret.op = "run_ypir" =>
              (pc = "done" /\ Len(trace) = 1 /\ trace[1].call = "read_tile_db_bin_header")

\* run_ypir failed on a file as long as a header whose magic is wrong
C9_Witness ==
    /\ exists
    /\ Len(data) > 15
    /\ Take(data, 7) = BadMagic
    /\ ret.op = "run_ypir"
    /\ ret.status = "BadMagic"

RunOrder ==
    << "read_tile_db_bin_header", "ypir_setup", "ypir_make_query", "ypir_answer",
       "ypir_extract" >>

Duration(ev) == ev.end - ev.start

\* C10: in run_ypir the calls run in the order header, setup, query, answer,
\* extract, each after the one before it has ended; setup has ended when t0 is
\* read; t_client is the duration of the query plus that of the extraction, t_server
\* that of the answer, t_total runs from before the query to after the extraction;
\* the setup lies in none of them.
C10_TimingBuckets ==
    /\ Len(trace) <= Len(RunOrder)
    /\ \A k \in 1..Len(trace) : trace[k].call = RunOrder[k]
    /\ \A k \in 1..(Len(trace) - 1) : trace[k].end <= trace[k + 1].start
    /\ (ret.op = "run_ypir" /\ ret.status = "ok") =>
          /\ Len(trace) = 5
          /\ trace[2].end <= run.t0
          /\ run.t0 <= trace[3].start
          /\ trace[5].end <= run.t1
          /\ ret.res.t_client_ms = 1000 * (Duration(trace[3]) + Duration(trace[5]))
          /\ ret.res.t_server_ms = 1000 * Duration(trace[4])
          /\ ret.res.t_total_ms = 1000 * (run.t1 - run.t0)
          /\ ret.res.t_client_ms + ret.res.t_server_ms <= ret.res.t_total_ms

\* a run whose setup took two ticks and whose total exceeds client plus server
C10_Witness ==
    /\ ret.op = "run_ypir"
    /\ ret.status = "ok"
    /\ Duration(trace[2]) = 2
    /\ run.gap = 1
    /\ ret.res.t_client_ms = 3000
    /\ ret.res.t_server_ms = 1000
    /\ ret.res.t_total_ms = 8000

====
